---- MODULE Spec2Model ----
(***************************************************************************)
(* Model of src/nmdb.py: the NMDB query-URL builder, the ASCII line        *)
(* parser, the table assembler and the nmdb_data driver.                   *)
(*                                                                         *)
(* Strings are sequences of one-character strings, so that the regular     *)
(* expressions, strip/split, percent-encoding and the number/date          *)
(* conversions are computed character by character as the code does.       *)
(***************************************************************************)
EXTENDS Integers, Sequences, FiniteSets, TLC

VARIABLES
  pc,          \* position in nmdb_data: start, built, fetched, parsed, done, failed
  start_date,  \* argument of nmdb_data
  start_time,  \* argument of nmdb_data
  end_date,    \* argument of nmdb_data
  end_time,    \* argument of nmdb_data
  base_url,    \* argument of nmdb_data, <<>> for None
  out_csv,     \* argument of nmdb_data: path of the CSV
  url_ascii,   \* local of nmdb_data: the built URL
  text,        \* local of nmdb_data: the response body
  rows,        \* local of _parse_ascii: the Raw Rows, each with its line number
  frame,       \* local of _parse_ascii: df after the two conversions
  df,          \* the Result Table
  err,         \* the exception the call ended with, "" when none
  http,        \* the HTTP requests issued so far (their URLs)
  fs,          \* the file system: path -> [kind, body], kind "absent" when no file
  writes       \* the file writes done so far: [path, kind, over], over the
               \* kind of what the path held before

vars == <<pc, start_date, start_time, end_date, end_time, base_url, out_csv,
          url_ascii, text, rows, frame, df, err, http, fs, writes>>

(***************************************************************************)
(* Characters                                                              *)
(***************************************************************************)
Digits == {"0", "1", "2", "3", "4", "5", "6", "7", "8", "9"}

DigitVal(c) ==
  CASE c = "0" -> 0 [] c = "1" -> 1 [] c = "2" -> 2 [] c = "3" -> 3
    [] c = "4" -> 4 [] c = "5" -> 5 [] c = "6" -> 6 [] c = "7" -> 7
    [] c = "8" -> 8 [] c = "9" -> 9

\* str.strip() and str.split() with no argument work on whitespace
Whitespace == {" ", "\t", "\n", "\r", "\f"}

\* str.splitlines() ends a line at any of these ("\r\n" counts once)
LineBreaks == {"\n", "\r", "\f"}

AllDigits(s, a, b) == \A i \in a..b : s[i] \in Digits

\* where a pattern's final $ matches after n characters: at the end of the
\* string, or just before a newline that is the string's last character
DollarAt(s, n) == Len(s) = n \/ (Len(s) = n + 1 /\ s[n + 1] = "\n")

RECURSIVE DigitsEnd(_, _)
\* last index of the run of digits that starts at i (i - 1 when there is none)
DigitsEnd(s, i) ==
  IF i <= Len(s) /\ s[i] \in Digits THEN DigitsEnd(s, i + 1) ELSE i - 1

RECURSIVE NatVal(_, _, _)
\* value of the digits s[a..b]
NatVal(s, a, b) ==
  IF b < a THEN 0 ELSE 10 * NatVal(s, a, b - 1) + DigitVal(s[b])

(***************************************************************************)
(* Regular expressions                                                     *)
(***************************************************************************)
\* \d{4}-\d{2}-\d{2} at position i of s
DateAt(s, i) ==
  /\ i + 9 <= Len(s)
  /\ AllDigits(s, i, i + 3) /\ s[i + 4] = "-"
  /\ AllDigits(s, i + 5, i + 6) /\ s[i + 7] = "-"
  /\ AllDigits(s, i + 8, i + 9)

\* \d{2}:\d{2} at position i of s
HourMinAt(s, i) ==
  /\ i + 4 <= Len(s)
  /\ AllDigits(s, i, i + 1) /\ s[i + 2] = ":"
  /\ AllDigits(s, i + 3, i + 4)

\* :\d{2} at position i of s
SecAt(s, i) == i + 2 <= Len(s) /\ s[i] = ":" /\ AllDigits(s, i + 1, i + 2)

\* DATE_RE.match(s), and the same pattern written inline in _parse_ascii
DATE_RE(s) == DateAt(s, 1) /\ DollarAt(s, 10)

\* TIME_RE.match(s)
TIME_RE(s) == HourMinAt(s, 1) /\ DollarAt(s, 5)

\* re.match(r'^\d{2}:\d{2}(:\d{2})?$', s)
TOKEN_TIME_RE(s) ==
  /\ HourMinAt(s, 1)
  /\ \/ (SecAt(s, 6) /\ DollarAt(s, 8))
     \/ DollarAt(s, 5)

\* end of the longest match of [+-]?\d+(\.\d+)?([eE][+-]?\d+)? that starts
\* at position i of s, 0 when there is none
NumEnd(s, i) ==
  LET a == IF i <= Len(s) /\ s[i] \in {"+", "-"} THEN i + 1 ELSE i
      b == DigitsEnd(s, a)
      c == IF b + 2 <= Len(s) /\ s[b + 1] = "." /\ DigitsEnd(s, b + 2) >= b + 2
           THEN DigitsEnd(s, b + 2) ELSE b
      e == IF c + 2 <= Len(s) /\ s[c + 1] \in {"e", "E"} /\ s[c + 2] \in {"+", "-"}
           THEN c + 3 ELSE c + 2
      d == IF c + 1 <= Len(s) /\ s[c + 1] \in {"e", "E"} /\ DigitsEnd(s, e) >= e
           THEN DigitsEnd(s, e) ELSE c
  IN IF b < a THEN 0 ELSE d

\* NUM_RE.match(s): the pattern is anchored with ^ and $
NUM_RE(s) == NumEnd(s, 1) > 0 /\ DollarAt(s, NumEnd(s, 1))

\* NUM_RE.search(s).group(0), <<>> when there is no match: the pattern starts
\* with ^ and ends with $ and is compiled without MULTILINE, so search can
\* match at position 1 only and only up to the end of s
NUM_RE_search(s) == IF NUM_RE(s) THEN SubSeq(s, 1, NumEnd(s, 1)) ELSE <<>>

\* end of the match of \d{4}-\d{2}-\d{2}[T ]\d{2}:\d{2}(:\d{2})? at position
\* i of s, 0 when there is none
DateTimeEnd(s, i) ==
  IF DateAt(s, i) /\ i + 10 <= Len(s) /\ s[i + 10] \in {"T", " "} /\ HourMinAt(s, i + 11)
  THEN (IF SecAt(s, i + 16) THEN i + 18 ELSE i + 15)
  ELSE 0

\* re.search(r'(\d{4}-\d{2}-\d{2}[T ]\d{2}:\d{2}(:\d{2})?)', s).group(1),
\* <<>> when there is no match
DATETIME_search(s) ==
  LET hits == {i \in 1..Len(s) : DateTimeEnd(s, i) > 0}
  IN IF hits = {} THEN <<>>
     ELSE LET i == CHOOSE h \in hits : \A k \in hits : h <= k
          IN SubSeq(s, i, DateTimeEnd(s, i))

(***************************************************************************)
(* str methods                                                             *)
(***************************************************************************)
\* the k-th smallest element of a set of numbers
Kth(S, k) == CHOOSE x \in S : Cardinality({y \in S : y < x}) = k - 1

\* s.lstrip(chars) for a set of characters
LStrip(s, chars) ==
  LET keep == {i \in 1..Len(s) : s[i] \notin chars}
  IN IF keep = {} THEN <<>> ELSE SubSeq(s, Kth(keep, 1), Len(s))

\* s.rstrip(chars) for a set of characters
RStrip(s, chars) ==
  LET keep == {i \in 1..Len(s) : s[i] \notin chars}
  IN IF keep = {} THEN <<>> ELSE SubSeq(s, 1, Kth(keep, Cardinality(keep)))

\* s.strip()
Strip(s) == RStrip(LStrip(s, Whitespace), Whitespace)

\* s.split(): the maximal runs of non-whitespace characters
Split(s) ==
  LET first == {i \in 1..Len(s) : s[i] \notin Whitespace /\ (i = 1 \/ s[i - 1] \in Whitespace)}
      last == {i \in 1..Len(s) : s[i] \notin Whitespace /\ (i = Len(s) \/ s[i + 1] \in Whitespace)}
  IN [k \in 1..Cardinality(first) |-> SubSeq(s, Kth(first, k), Kth(last, k))]

\* s.split(sep) for a single character sep: the pieces between the seps
SplitOn(s, sep) ==
  LET cuts == {i \in 1..Len(s) : s[i] = sep}
      n == Cardinality(cuts)
      from(k) == IF k = 1 THEN 1 ELSE Kth(cuts, k - 1) + 1
      to(k) == IF k = n + 1 THEN Len(s) ELSE Kth(cuts, k) - 1
  IN [k \in 1..(n + 1) |-> SubSeq(s, from(k), to(k))]

\* s.splitlines(): a line ends at a line break, "\r\n" counting as one, and
\* a trailing line break opens no further line
SplitLines(s) ==
  LET ends == {i \in 1..Len(s) :
                 s[i] \in LineBreaks /\ ~(s[i] = "\r" /\ i < Len(s) /\ s[i + 1] = "\n")}
      first == {i \in 1..Len(s) : i = 1 \/ (i - 1) \in ends}
      stop(a) == LET after == {i \in ends : i >= a}
                     b == Kth(after, 1)
                 IN IF after = {} THEN Len(s)
                    ELSE IF s[b] = "\n" /\ b - 1 >= a /\ s[b - 1] = "\r" THEN b - 2
                    ELSE b - 1
  IN [k \in 1..Cardinality(first) |-> SubSeq(s, Kth(first, k), stop(Kth(first, k)))]

RECURSIVE JoinRange(_, _, _, _)
\* parts[a], sep, ..., sep, parts[b]
JoinRange(parts, sep, a, b) ==
  IF a > b THEN <<>>
  ELSE IF a = b THEN parts[a]
       ELSE JoinRange(parts, sep, a, (a + b) \div 2) \o sep
              \o JoinRange(parts, sep, (a + b) \div 2 + 1, b)

\* sep.join(parts)
Join(parts, sep) == JoinRange(parts, sep, 1, Len(parts))

\* s.replace(a, b) for single characters
Replace(s, a, b) == [i \in 1..Len(s) |-> IF s[i] = a THEN b ELSE s[i]]

(***************************************************************************)
(* _parse_ascii: the line parser                                           *)
(***************************************************************************)
\* a Raw Row (dt, cnt); ln, the number of the line it comes from, is kept
\* for stating properties and is not read by the code
RawRow(dt, cnt) == [dt |-> dt, cnt |-> cnt]

\* the result for a line that appends nothing to rows
NoRow == RawRow(<<>>, <<>>)

\* ParseLine with Format A taking the count from the last token
ParseLineCountLast(ln) ==
  LET tokens == Split(Strip(ln))
      n == Len(tokens)
  IN IF Strip(ln) = <<>> \/ Strip(ln)[1] = "#" THEN NoRow
     ELSE IF n >= 3 /\ DATE_RE(tokens[1]) /\ TOKEN_TIME_RE(tokens[2])
          THEN RawRow(tokens[1] \o <<" ">> \o tokens[2], tokens[n])
     ELSE IF n >= 2 /\ DATE_RE(tokens[1]) /\ NUM_RE(tokens[2])
          THEN RawRow(tokens[1], tokens[2])
     ELSE IF NUM_RE(tokens[n]) /\ n >= 2
          THEN RawRow(Join(SubSeq(tokens, 1, n - 1), <<" ">>), tokens[n])
     ELSE NoRow

\* one iteration of the loop over text.splitlines()
ParseLine(ln) ==
  LET line == Strip(ln)
      tokens == Split(line)
      n == Len(tokens)
      joined == Join(tokens, <<" ">>)
      m == DATETIME_search(joined)
      num == NUM_RE_search(joined)
  IN IF line = <<>> \/ line[1] = "#" THEN NoRow
     ELSE IF n >= 3 /\ DATE_RE(tokens[1]) /\ TOKEN_TIME_RE(tokens[2])
          THEN RawRow(tokens[1] \o <<" ">> \o tokens[2], tokens[3])
     ELSE IF n >= 2 /\ DATE_RE(tokens[1]) /\ NUM_RE(tokens[2])
          THEN RawRow(tokens[1], tokens[2])
     ELSE IF NUM_RE(tokens[n]) /\ n >= 2
          THEN RawRow(Join(SubSeq(tokens, 1, n - 1), <<" ">>), tokens[n])
     ELSE IF m # <<>> /\ num # <<>>
          THEN RawRow(Replace(m, "T", " "), num)
     ELSE NoRow

\* rows after the loop: the Raw Rows in line order
ParseRows(t) ==
  LET lines == SplitLines(t)
      parsed == [i \in 1..Len(lines) |-> ParseLine(lines[i])]
      all == [i \in 1..Len(lines) |-> [dt |-> parsed[i].dt, cnt |-> parsed[i].cnt, ln |-> i]]
  IN SelectSeq(all, LAMBDA r : r.cnt # <<>>)

(***************************************************************************)
(* _parse_ascii: the table assembler                                       *)
(***************************************************************************)
IsLeap(y) == (y % 4 = 0 /\ y % 100 # 0) \/ y % 400 = 0

DaysIn(y, m) ==
  IF m = 2 THEN (IF IsLeap(y) THEN 29 ELSE 28)
  ELSE IF m \in {4, 6, 9, 11} THEN 30 ELSE 31

\* pd.to_datetime(..., errors='coerce') on one value: <<timestamp>>, or <<>>
\* for NaT. A timestamp is <<year, month, day, hour, minute, second>>. The
\* texts taken as dates are YYYY-MM-DD alone or followed by 'T' or a space
\* and HH:MM or HH:MM:SS, with every field in range.
to_datetime(s) ==
  LET hasTime == DateTimeEnd(s, 1) = Len(s) /\ Len(s) > 0
      hasSec == hasTime /\ Len(s) = 19
      y == NatVal(s, 1, 4)
      mo == NatVal(s, 6, 7)
      d == NatVal(s, 9, 10)
      h == IF hasTime THEN NatVal(s, 12, 13) ELSE 0
      mi == IF hasTime THEN NatVal(s, 15, 16) ELSE 0
      sec == IF hasSec THEN NatVal(s, 18, 19) ELSE 0
  IN IF ~(hasTime \/ (DateAt(s, 1) /\ Len(s) = 10)) THEN <<>>
     ELSE IF y >= 1 /\ mo \in 1..12 /\ d \in 1..DaysIn(y, mo)
             /\ h <= 23 /\ mi <= 59 /\ sec <= 59
          THEN << <<y, mo, d, h, mi, sec>> >>
          ELSE <<>>

RECURSIVE Pow10(_)
Pow10(n) == IF n = 0 THEN 1 ELSE 10 * Pow10(n - 1)

\* pd.to_numeric(..., errors='coerce') on one value: <<number>>, or <<>> for
\* NaN. A number is kept in hundredths. The texts taken as numbers are those
\* of a decimal float literal: an optional sign, digits with an optional
\* point (digits on at least one side of it) and an optional exponent.
to_numeric(s) ==
  LET a == IF s # <<>> /\ s[1] \in {"+", "-"} THEN 2 ELSE 1
      b == DigitsEnd(s, a)
      hasDot == b + 1 <= Len(s) /\ s[b + 1] = "."
      c == IF hasDot THEN DigitsEnd(s, b + 2) ELSE b
      hasDigits == b >= a \/ (hasDot /\ c >= b + 2)
      f1 == IF hasDot /\ c >= b + 2 THEN DigitVal(s[b + 2]) ELSE 0
      f2 == IF hasDot /\ c >= b + 3 THEN DigitVal(s[b + 3]) ELSE 0
      hasExp == c + 1 <= Len(s) /\ s[c + 1] \in {"e", "E"}
      eNeg == c + 2 <= Len(s) /\ s[c + 2] = "-"
      e == IF c + 2 <= Len(s) /\ s[c + 2] \in {"+", "-"} THEN c + 3 ELSE c + 2
      d == IF hasExp THEN DigitsEnd(s, e) ELSE c
      ex == IF hasExp THEN NatVal(s, e, d) ELSE 0
      mant == NatVal(s, a, b) * 100 + f1 * 10 + f2
      mag == IF eNeg THEN mant \div Pow10(ex) ELSE mant * Pow10(ex)
  IN IF ~hasDigits \/ (hasExp /\ d < e) \/ d # Len(s) THEN <<>>
     ELSE IF s[1] = "-" THEN << 0 - mag >> ELSE << mag >>

\* the format of a datetime text: its length and its date/time separator
ShapeOf(s) == <<Len(s), IF Len(s) > 10 THEN s[11] ELSE "">>

\* the Raw Rows whose datetime text is a timestamp taken alone, in another
\* format than that of the first Raw Row. pandas before 2.0 converts each
\* value alone; from 2.0 on it infers one format from the first value, when
\* that value is a timestamp, and makes NaT of the values of other formats.
OtherFormat(rs) ==
  {i \in 1..Len(rs) :
     /\ to_datetime(rs[1].dt) # <<>> /\ to_datetime(rs[i].dt) # <<>>
     /\ ShapeOf(rs[i].dt) # ShapeOf(rs[1].dt)}

\* df after the two conversions, one record per Raw Row: the outcomes of
\* pd.to_datetime on the column (any of the values of another format may
\* come out NaT) and of pd.to_numeric
Frames(rs) ==
  {[i \in 1..Len(rs) |->
      [datetime |-> IF i \in nat THEN <<>> ELSE to_datetime(rs[i].dt),
       count |-> to_numeric(rs[i].cnt),
       ln |-> rs[i].ln]] : nat \in SUBSET OtherFormat(rs)}

\* DropNa followed by drop_duplicates('datetime'): the first row of each
\* timestamp only
DropNaDedup(f) ==
  LET g == SelectSeq(f, LAMBDA r : r.datetime # <<>> /\ r.count # <<>>)
      keep == {i \in 1..Len(g) : \A j \in 1..(i - 1) : g[j].datetime # g[i].datetime}
  IN [k \in 1..Cardinality(keep) |-> g[Kth(keep, k)]]

\* df.dropna(subset=['datetime', 'count'])
DropNa(f) == SelectSeq(f, LAMBDA r : r.datetime # <<>> /\ r.count # <<>>)

RECURSIVE TupleLeq(_, _)
\* a <= b for two timestamps
TupleLeq(a, b) ==
  IF a = <<>> THEN TRUE
  ELSE IF a[1] # b[1] THEN a[1] < b[1]
       ELSE TupleLeq(Tail(a), Tail(b))

\* the order sort_values('datetime') puts two cells in: NaT goes last
KeyLeq(x, y) ==
  IF y = <<>> THEN TRUE
  ELSE IF x = <<>> THEN FALSE
       ELSE TupleLeq(x[1], y[1])

IsSortedByDatetime(f) ==
  \A i \in 1..(Len(f) - 1) : KeyLeq(f[i].datetime, f[i + 1].datetime)

\* SortValues without the sort
SortValuesUnsorted(f) == {f}

\* df.sort_values('datetime'): the default kind is 'quicksort', which pandas
\* documents as not stable, so every ascending arrangement of the rows is a
\* possible outcome
SortValues(f) ==
  LET n == Len(f)
      perms == {p \in [1..n -> 1..n] : \A i, j \in 1..n : i # j => p[i] # p[j]}
  IN {g \in {[i \in 1..n |-> f[p[i]]] : p \in perms} : IsSortedByDatetime(g)}

(***************************************************************************)
(* Input texts                                                             *)
(***************************************************************************)
SP == <<" ">>
NL == <<"\n">>
D29 == <<"2", "0", "2", "5", "-", "0", "7", "-", "2", "9">>
D28 == <<"2", "0", "2", "5", "-", "0", "7", "-", "2", "8">>
T0005s == <<"0", "0", ":", "0", "5", ":", "0", "0">>
T2359 == <<"2", "3", ":", "5", "9">>
N12345 == <<"1", "2", "3", "4", "5", ".", "6">>
N32 == <<"3", ".", "2">>
N999 == <<"9", "9", ".", "9">>
N7 == <<"7">>
N1e2 == <<"1", "e", "2">>
N12 == <<"1", "2">>
N5 == <<"5">>
Wabc == <<"a", "b", "c">>
Wx == <<"x">>
DT28 == <<"2", "0", "2", "5", "-", "0", "7", "-", "2", "8", "T", "2", "3", ":", "5", "9">>
DT29 == <<"2", "0", "2", "5", "-", "0", "7", "-", "2", "9", "T", "0", "0", ":", "0", "5", ":", "0", "0">>

\* Format A, with further numeric tokens after the count
LineA == D29 \o SP \o T0005s \o SP \o SP \o SP \o N12345 \o SP \o SP \o SP \o N32
\* Format A, an earlier timestamp, HH:MM
LineAEarly == D28 \o SP \o T2359 \o SP \o N7
\* Format A, the timestamp of LineA with another count
LineATie == D29 \o <<"\t">> \o T0005s \o SP \o N32
\* the token shape of Format A with a count that is no number
LineABad == D29 \o SP \o T0005s \o SP \o Wabc \o SP \o N32
\* Format B, ended by "\r\n"
LineB == D29 \o SP \o SP \o SP \o N999 \o <<"\r">>
\* Format C, a datetime text that is a timestamp (that of LineAEarly)
LineC == DT28 \o SP \o N12
\* Format C, a datetime text that is no timestamp
LineCBad == Wabc \o SP \o N1e2
\* none of A, B, C; holds a datetime and a number
LineD == DT29 \o SP \o Wabc \o SP \o N12 \o SP \o Wx
\* a comment, indented
LineComment == SP \o <<"#">> \o SP \o D29 \o SP \o N5
LineBlank == SP \o <<"\t">>
LineJunk == Wabc \o SP \o Wx

LinePool == {LineA, LineAEarly, LineATie, LineABad, LineB, LineC, LineCBad, LineD,
             LineComment, LineBlank, LineJunk}

\* the largest number of lines of a response body
MaxLines == 3

RECURSIVE TextOf(_)
\* the body made of the given lines, each ended by a newline
TextOf(ls) == IF ls = <<>> THEN <<>> ELSE ls[1] \o NL \o TextOf(Tail(ls))

Texts == {TextOf(ls) : ls \in UNION {[1..k -> LinePool] : k \in 0..MaxLines}}

(***************************************************************************)
(* Files                                                                   *)
(***************************************************************************)
\* the path nmdb_data opens for the debug dump
DebugPath == "nmdb_debug.txt"

\* the default of out_csv
DefaultCsv == "nmdb_oulu.csv"

Paths == {DefaultCsv, DebugPath}

Absent == [kind |-> "absent", body |-> <<>>]

(***************************************************************************)
(* _parse_ascii as a step                                                  *)
(***************************************************************************)
\* text -> rows -> df
ParseAscii ==
  /\ pc = "fetched"
  /\ rows' = ParseRows(text)
  /\ frame' \in Frames(rows')
  /\ df' \in SortValues(DropNa(frame'))
  /\ pc' = "parsed"
  /\ UNCHANGED <<start_date, start_time, end_date, end_time, base_url, out_csv,
                 url_ascii, text, err, http, fs, writes>>

InitParse ==
  /\ pc = "fetched"
  /\ text \in Texts
  /\ start_date = <<>> /\ start_time = <<>> /\ end_date = <<>> /\ end_time = <<>>
  /\ base_url = <<>> /\ url_ascii = <<>>
  /\ out_csv = "nmdb_oulu.csv"
  /\ rows = <<>> /\ frame = <<>> /\ df = <<>> /\ err = "" /\ http = <<>> /\ writes = <<>>
  /\ fs = [p \in Paths |-> Absent]

NextParse == ParseAscii

SpecParse == InitParse /\ [][NextParse]_vars

(***************************************************************************)
(* Properties of _parse_ascii                                              *)
(***************************************************************************)
\* the tokens of each line of text
TokensOfLines == LET lines == SplitLines(text) IN [i \in 1..Len(lines) |-> Split(Strip(lines[i]))]

\* t is the tokens of a line the loop does not skip as empty or as a comment
IsDataLine(t) == t # <<>> /\ t[1][1] # "#"

RowsOfLine(i) == {k \in 1..Len(rows) : rows[k].ln = i}

FormatA(t) == Len(t) >= 3 /\ DATE_RE(t[1]) /\ TOKEN_TIME_RE(t[2])
FormatB(t) == Len(t) >= 2 /\ DATE_RE(t[1]) /\ NUM_RE(t[2])
FormatC(t) == Len(t) >= 2 /\ NUM_RE(t[Len(t)])

\* the first substring of s that matches the numeric pattern, <<>> when none
NumericSubstring(s) ==
  LET hits == {i \in 1..Len(s) : NumEnd(s, i) > 0}
  IN IF hits = {} THEN <<>>
     ELSE SubSeq(s, Kth(hits, 1), NumEnd(s, Kth(hits, 1)))

FormatD(t) ==
  DATETIME_search(Join(t, SP)) # <<>> /\ NumericSubstring(Join(t, SP)) # <<>>

\* the Raw Row of the first of Formats A, B, C, D whose condition holds
FirstFormatRow(t) ==
  IF FormatA(t) THEN RawRow(t[1] \o SP \o t[2], t[3])
  ELSE IF FormatB(t) THEN RawRow(t[1], t[2])
  ELSE IF FormatC(t) THEN RawRow(Join(SubSeq(t, 1, Len(t) - 1), SP), t[Len(t)])
  ELSE IF FormatD(t)
       THEN RawRow(Replace(DATETIME_search(Join(t, SP)), "T", " "),
                   NumericSubstring(Join(t, SP)))
  ELSE NoRow

\* C1: every line that is not empty and is no comment yields the Raw Row of
\* the first of Formats A, B, C, D whose condition holds, and no Raw Row when
\* none holds.
C1_FirstMatchingFormatWins ==
  pc = "parsed" =>
    LET toks == TokensOfLines
    IN \A i \in DOMAIN toks :
         IsDataLine(toks[i]) =>
           LET want == FirstFormatRow(toks[i])
           IN IF want = NoRow
              THEN RowsOfLine(i) = {}
              ELSE /\ Cardinality(RowsOfLine(i)) = 1
                   /\ \A k \in RowsOfLine(i) : rows[k].dt = want.dt /\ rows[k].cnt = want.cnt

\* C2: a line that matches none of Formats A, B, C and whose joined tokens
\* hold a datetime substring and a numeric substring yields the Raw Row of
\* the first datetime substring ('T' made a space) and the first numeric
\* substring.
C2_FormatDFallbackYieldsRow ==
  pc = "parsed" =>
    \A i \in DOMAIN TokensOfLines :
      LET t == TokensOfLines[i]
      IN (IsDataLine(t) /\ ~FormatA(t) /\ ~FormatB(t) /\ ~FormatC(t) /\ FormatD(t)) =>
           \E k \in RowsOfLine(i) :
             /\ rows[k].dt = Replace(DATETIME_search(Join(t, SP)), "T", " ")
             /\ rows[k].cnt = NumericSubstring(Join(t, SP))

Converted == {k \in 1..Len(frame) : frame[k].datetime # <<>> /\ frame[k].count # <<>>}

C10_FormatABadCountNoRow ==
  pc = "parsed" =>
    LET toks == TokensOfLines
    IN \A i \in DOMAIN toks :
         (IsDataLine(toks[i]) /\ FormatA(toks[i]) /\ to_numeric(toks[i][3]) = <<>>) =>
           \A j \in 1..Len(df) : df[j].ln # i

\* C10 witness: such a line whose last token is numeric went through Format A
C10_Witness ==
  /\ pc = "parsed"
  /\ Len(df) > 0
  /\ \E i \in DOMAIN TokensOfLines :
       LET t == TokensOfLines[i]
       IN /\ IsDataLine(t) /\ FormatA(t) /\ to_numeric(t[3]) = <<>>
          /\ NUM_RE(t[Len(t)])
          /\ \E k \in RowsOfLine(i) : rows[k].cnt = t[3]

(***************************************************************************)
(* URL builder                                                             *)
(***************************************************************************)
\* DEFAULT_URL
DEFAULT_URL ==
  <<"h", "t", "t", "p", "s", ":", "/", "/", "w", "w", "w", ".", "n", "m",
    "d", "b", ".", "e", "u", "/", "n", "e", "s", "t", "/", "d", "r", "a",
    "w", "_", "g", "r", "a", "p", "h", ".", "p", "h", "p", "?", "f", "o",
    "r", "m", "c", "h", "k", "=", "1", "&", "s", "t", "a", "t", "i", "o",
    "n", "s", "[", "]", "=", "O", "U", "L", "U", "&", "t", "a", "b", "c",
    "h", "o", "i", "c", "e", "=", "r", "e", "v", "o", "r", "i", "&", "d",
    "t", "y", "p", "e", "=", "c", "o", "r", "r", "_", "f", "o", "r", "_",
    "e", "f", "f", "i", "c", "i", "e", "n", "c", "y", "&", "t", "r", "e",
    "s", "o", "l", "u", "t", "i", "o", "n", "=", "5", "&", "y", "u", "n",
    "i", "t", "s", "=", "0", "&", "s", "h", "i", "f", "t", "=", "2", "&",
    "d", "a", "t", "e", "_", "c", "h", "o", "i", "c", "e", "=", "b", "y",
    "d", "a", "t", "e", "&", "s", "t", "a", "r", "t", "_", "d", "a", "y",
    "=", "2", "9", "&", "s", "t", "a", "r", "t", "_", "m", "o", "n", "t",
    "h", "=", "7", "&", "s", "t", "a", "r", "t", "_", "y", "e", "a", "r",
    "=", "2", "0", "2", "5", "&", "s", "t", "a", "r", "t", "_", "h", "o",
    "u", "r", "=", "0", "&", "s", "t", "a", "r", "t", "_", "m", "i", "n",
    "=", "0", "&", "e", "n", "d", "_", "d", "a", "y", "=", "2", "9", "&",
    "e", "n", "d", "_", "m", "o", "n", "t", "h", "=", "8", "&", "e", "n",
    "d", "_", "y", "e", "a", "r", "=", "2", "0", "2", "5", "&", "e", "n",
    "d", "_", "h", "o", "u", "r", "=", "2", "3", "&", "e", "n", "d", "_",
    "m", "i", "n", "=", "5", "9", "&", "o", "u", "t", "p", "u", "t", "=",
    "p", "l", "o", "t", "&", "y", "g", "r", "i", "d", "=", "1", "&", "m",
    "l", "i", "n", "e", "=", "1", "&", "t", "r", "a", "n", "s", "p", "=",
    "0", "&", "f", "o", "n", "t", "s", "i", "z", "e", "=", "1", "&", "t",
    "e", "x", "t", "_", "c", "o", "l", "o", "r", "=", "2", "2", "2", "2",
    "2", "2", "&", "b", "a", "c", "k", "g", "r", "o", "u", "n", "d", "_",
    "c", "o", "l", "o", "r", "=", "F", "F", "F", "F", "F", "F", "&", "m",
    "a", "r", "g", "i", "n", "_", "c", "o", "l", "o", "r", "=", "F", "F",
    "F", "F", "F", "F">>

K_start_day == <<"s", "t", "a", "r", "t", "_", "d", "a", "y">>
K_start_month == <<"s", "t", "a", "r", "t", "_", "m", "o", "n", "t", "h">>
K_start_year == <<"s", "t", "a", "r", "t", "_", "y", "e", "a", "r">>
K_start_hour == <<"s", "t", "a", "r", "t", "_", "h", "o", "u", "r">>
K_start_min == <<"s", "t", "a", "r", "t", "_", "m", "i", "n">>
K_end_day == <<"e", "n", "d", "_", "d", "a", "y">>
K_end_month == <<"e", "n", "d", "_", "m", "o", "n", "t", "h">>
K_end_year == <<"e", "n", "d", "_", "y", "e", "a", "r">>
K_end_hour == <<"e", "n", "d", "_", "h", "o", "u", "r">>
K_end_min == <<"e", "n", "d", "_", "m", "i", "n">>
K_output == <<"o", "u", "t", "p", "u", "t">>
V_ascii == <<"a", "s", "c", "i", "i">>

\* the characters urllib.parse.quote leaves as they are: letters, digits and
\* "_.-~" (the letters are those the modelled URLs use)
AlwaysSafe ==
  Digits \cup {"_", ".", "-", "~"}
    \cup {"a", "b", "c", "d", "e", "f", "g", "h", "i", "j", "k", "l", "m", "n", "o",
          "p", "q", "r", "s", "t", "u", "v", "w", "x", "y", "z",
          "A", "B", "C", "D", "E", "F", "G", "H", "I", "J", "K", "L", "M", "N", "O",
          "P", "Q", "R", "S", "T", "U", "V", "W", "X", "Y", "Z"}

\* the percent-escape of a character that is not always safe (the
\* characters are those the modelled URLs use)
PercentCode(c) ==
  CASE c = " " -> <<"%", "2", "0">>
    [] c = "\n" -> <<"%", "0", "A">>
    [] c = "[" -> <<"%", "5", "B">>
    [] c = "]" -> <<"%", "5", "D">>
    [] c = "+" -> <<"%", "2", "B">>
    [] c = "=" -> <<"%", "3", "D">>
    [] c = "&" -> <<"%", "2", "6">>
    [] c = "%" -> <<"%", "2", "5">>
    [] c = ":" -> <<"%", "3", "A">>
    [] c = "/" -> <<"%", "2", "F">>
    [] c = "_" -> <<"%", "5", "F">>

Escapable == {" ", "\n", "[", "]", "+", "=", "&", "%", ":", "/", "_"}

\* a hexadecimal digit in upper case
HexUpper(c) ==
  CASE c = "a" -> "A" [] c = "b" -> "B" [] c = "c" -> "C"
    [] c = "d" -> "D" [] c = "e" -> "E" [] c = "f" -> "F"
    [] OTHER -> c

\* the character a %xx escape at the head of s stands for, "" when s does
\* not start with an escape
EscapeAt(s) ==
  IF Len(s) >= 3 /\ s[1] = "%"
  THEN LET hit == {c \in Escapable : PercentCode(c) = <<"%", HexUpper(s[2]), HexUpper(s[3])>>}
       IN IF hit = {} THEN "" ELSE CHOOSE c \in hit : TRUE
  ELSE ""

\* urllib.parse.unquote: each %xx escape becomes its character (the two
\* characters after the '%' of an escape are never a '%', so escapes do not
\* overlap)
unquote(s) ==
  LET starts == {i \in 1..Len(s) : EscapeAt(SubSeq(s, i, Len(s))) # ""}
      piece(i) == IF i \in starts THEN <<EscapeAt(SubSeq(s, i, Len(s)))>>
                  ELSE IF (i - 1) \in starts \/ (i - 2) \in starts THEN <<>>
                  ELSE <<s[i]>>
  IN Join([i \in 1..Len(s) |-> piece(i)], <<>>)

\* urllib.parse.quote_plus with safe='': a space becomes '+', a character
\* that is not always safe becomes its %XX escape
quote_plus(s) ==
  Join([i \in 1..Len(s) |->
          IF s[i] \in AlwaysSafe THEN <<s[i]>>
          ELSE IF s[i] = " " THEN <<"+">>
          ELSE PercentCode(s[i])], <<>>)

\* name_value.split('=', 1)
SplitFirstEq(nv) ==
  LET eqs == {i \in 1..Len(nv) : nv[i] = "="}
  IN IF eqs = {} THEN <<nv>>
     ELSE <<SubSeq(nv, 1, Kth(eqs, 1) - 1), SubSeq(nv, Kth(eqs, 1) + 1, Len(nv))>>

\* urllib.parse.parse_qsl(q) with its defaults (keep_blank_values=False,
\* strict_parsing=False, separator '&'): the (name, value) pairs in order
parse_qsl(q) ==
  LET query_args == IF q = <<>> THEN <<>> ELSE SplitOn(q, "&")
      kept == SelectSeq(query_args,
                LAMBDA nv : nv # <<>> /\ Len(SplitFirstEq(nv)) = 2 /\ SplitFirstEq(nv)[2] # <<>>)
  IN [i \in 1..Len(kept) |->
        [name |-> unquote(Replace(SplitFirstEq(kept[i])[1], "+", " ")),
         value |-> unquote(Replace(SplitFirstEq(kept[i])[2], "+", " "))]]

\* the loop of parse_qs: a dict of name -> list of values. A dict keeps its
\* keys in the order of their first insertion, and each list its values in
\* the order of the pairs.
DictOfPairs(pairs) ==
  LET firsts == {i \in 1..Len(pairs) : \A j \in 1..(i - 1) : pairs[j].name # pairs[i].name}
      valuesOf(n) == LET at == {j \in 1..Len(pairs) : pairs[j].name = n}
                     IN [m \in 1..Cardinality(at) |-> pairs[Kth(at, m)].value]
  IN [k \in 1..Cardinality(firsts) |->
        [name |-> pairs[Kth(firsts, k)].name, values |-> valuesOf(pairs[Kth(firsts, k)].name)]]

\* urllib.parse.parse_qs(q)
parse_qs(q) == DictOfPairs(parse_qsl(q))

\* qs[k] = [v]: an existing key keeps its place, a new key goes last
DictSet(d, k, v) ==
  IF \E i \in 1..Len(d) : d[i].name = k
  THEN [i \in 1..Len(d) |-> IF d[i].name = k THEN [name |-> k, values |-> <<v>>] ELSE d[i]]
  ELSE Append(d, [name |-> k, values |-> <<v>>])

\* the inner loop of urlencode(doseq=True): k=v for each value of the key
EncodeValues(k, vs) ==
  [i \in 1..Len(vs) |-> quote_plus(k) \o <<"=">> \o quote_plus(vs[i])]

\* urllib.parse.urlencode(qs, doseq=True): '&'.join of the k=v of every key
\* in the order of the dict
urlencode(d) ==
  Join(SelectSeq([i \in 1..Len(d) |-> Join(EncodeValues(d[i].name, d[i].values), <<"&">>)],
                 LAMBDA x : x # <<>>),
       <<"&">>)

\* urlparse(u): the text before the query, the query and the fragment
urlparse(u) ==
  LET hashes == {i \in 1..Len(u) : u[i] = "#"}
      body == IF hashes = {} THEN u ELSE SubSeq(u, 1, Kth(hashes, 1) - 1)
      marks == {i \in 1..Len(body) : body[i] = "?"}
  IN [pre |-> IF marks = {} THEN body ELSE SubSeq(body, 1, Kth(marks, 1) - 1),
      query |-> IF marks = {} THEN <<>> ELSE SubSeq(body, Kth(marks, 1) + 1, Len(body)),
      fragment |-> IF hashes = {} THEN <<>> ELSE SubSeq(u, Kth(hashes, 1) + 1, Len(u))]

\* urlunparse of the parts with the query replaced
urlunparse(p, q) ==
  p.pre \o (IF q = <<>> THEN <<>> ELSE <<"?">> \o q)
        \o (IF p.fragment = <<>> THEN <<>> ELSE <<"#">> \o p.fragment)

\* x.lstrip('0') or '0'
LStripZerosOr0(x) == IF LStrip(x, {"0"}) = <<>> THEN <<"0">> ELSE LStrip(x, {"0"})

\* date_time_to_query_parts without the "or '0'"
date_time_to_query_parts_no_or(date_str, time_str) ==
  IF ~DATE_RE(date_str) \/ ~TIME_RE(time_str) THEN [err |-> "ValueError"]
  ELSE [err |-> "",
        day |-> LStrip(SplitOn(date_str, "-")[3], {"0"}),
        month |-> LStrip(SplitOn(date_str, "-")[2], {"0"}),
        year |-> SplitOn(date_str, "-")[1],
        hour |-> LStrip(SplitOn(time_str, ":")[1], {"0"}),
        min |-> LStrip(SplitOn(time_str, ":")[2], {"0"})]

\* _date_time_to_query_parts: the five parts, or the ValueError raised
date_time_to_query_parts(date_str, time_str) ==
  IF ~DATE_RE(date_str) THEN [err |-> "ValueError"]
  ELSE IF ~TIME_RE(time_str) THEN [err |-> "ValueError"]
  ELSE [err |-> "",
        day |-> LStripZerosOr0(SplitOn(date_str, "-")[3]),
        month |-> LStripZerosOr0(SplitOn(date_str, "-")[2]),
        year |-> SplitOn(date_str, "-")[1],
        hour |-> LStripZerosOr0(SplitOn(time_str, ":")[1]),
        min |-> LStripZerosOr0(SplitOn(time_str, ":")[2])]

\* _build_ascii_url: the URL, or the ValueError raised
build_ascii_url(base, sd, st, ed, et) ==
  LET p == urlparse(base)
      s == date_time_to_query_parts(sd, st)
      e == date_time_to_query_parts(ed, et)
      q1 == DictSet(DictSet(DictSet(parse_qs(p.query), K_start_day, s.day),
                            K_start_month, s.month), K_start_year, s.year)
      q2 == DictSet(DictSet(q1, K_start_hour, s.hour), K_start_min, s.min)
      q3 == DictSet(DictSet(DictSet(q2, K_end_day, e.day), K_end_month, e.month),
                    K_end_year, e.year)
      q4 == DictSet(DictSet(q3, K_end_hour, e.hour), K_end_min, e.min)
      q5 == DictSet(q4, K_output, V_ascii)
  IN IF s.err # "" THEN [err |-> s.err, url |-> <<>>]
     ELSE IF e.err # "" THEN [err |-> e.err, url |-> <<>>]
     ELSE [err |-> "", url |-> urlunparse(p, urlencode(q5))]

(***************************************************************************)
(* nmdb_data                                                               *)
(***************************************************************************)
Date0025 == <<"0", "0", "2", "5", "-", "0", "0", "-", "0", "5">>
Date1000 == <<"2", "0", "2", "5", "-", "1", "0", "-", "0", "0">>
DateShort == <<"2", "0", "2", "5", "-", "7", "-", "2", "9">>
Time0005 == <<"0", "0", ":", "0", "5">>
Time1000 == <<"1", "0", ":", "0", "0">>
TimeShort == <<"5", ":", "0", "0">>
UrlBlank == 
  <<"h", "t", "t", "p", ":", "/", "/", "n", "/", "d", "?", "a", "=", "&",
    "b", "=", "1">>
UrlShortDefault == 
  <<"h", "t", "t", "p", ":", "/", "/", "n", "/", "d", "?", "f", "o", "r",
    "m", "c", "h", "k", "=", "1", "&", "s", "t", "a", "t", "i", "o", "n",
    "s", "[", "]", "=", "O", "U", "L", "U", "&", "s", "t", "a", "r", "t",
    "_", "d", "a", "y", "=", "2", "9", "&", "o", "u", "t", "p", "u", "t",
    "=", "p", "l", "o", "t", "&", "y", "g", "r", "i", "d", "=", "1">>
UrlRepeated == 
  <<"h", "t", "t", "p", ":", "/", "/", "n", "/", "d", "?", "e", "n", "d",
    "_", "m", "i", "n", "=", "1", "&", "a", "=", "1", "&", "b", "=", "2",
    "&", "a", "=", "3", "&", "e", "n", "d", "_", "m", "i", "n", "=", "2",
    "&", "o", "u", "t", "p", "u", "t", "=", "x", "&", "o", "u", "t", "p",
    "u", "t", "=", "y">>
UrlEscaped == 
  <<"h", "t", "t", "p", ":", "/", "/", "n", "/", "d", "?", "s", "t", "a",
    "r", "t", "%", "5", "F", "d", "a", "y", "=", "3", "&", "c", "=", "x",
    "%", "2", "0", "y", "&", "d", "=", "1", "+", "2", "&", "e", "=", "%",
    "5", "b", "&", "f", "l", "a", "g">>
UrlNoQuery == <<"h", "t", "t", "p", ":", "/", "/", "n", "/", "d">>
UrlFragment == 
  <<"h", "t", "t", "p", ":", "/", "/", "n", "/", "d", "?", "x", "=", "1",
    "#", "f", "r", "a", "g">>
UrlAllEleven == 
  <<"h", "t", "t", "p", ":", "/", "/", "n", "/", "d", "?", "e", "n", "d",
    "_", "m", "i", "n", "=", "9", "&", "o", "u", "t", "p", "u", "t", "=",
    "p", "l", "o", "t", "&", "s", "t", "a", "r", "t", "_", "y", "e", "a",
    "r", "=", "1", "&", "k", "=", "v", "&", "e", "n", "d", "_", "h", "o",
    "u", "r", "=", "1", "&", "s", "t", "a", "r", "t", "_", "d", "a", "y",
    "=", "0", "1", "&", "e", "n", "d", "_", "d", "a", "y", "=", "1", "&",
    "s", "t", "a", "r", "t", "_", "m", "i", "n", "=", "1", "&", "e", "n",
    "d", "_", "y", "e", "a", "r", "=", "1", "&", "s", "t", "a", "r", "t",
    "_", "m", "o", "n", "t", "h", "=", "1", "&", "e", "n", "d", "_", "m",
    "o", "n", "t", "h", "=", "1", "&", "s", "t", "a", "r", "t", "_", "h",
    "o", "u", "r", "=", "1">>
OldDump == <<"o", "l", "d">>

DatePool == {D29, Date0025, Date1000, DateShort, D29 \o NL}
TimePool == {Time0005, T2359, Time1000, TimeShort, Time0005 \o NL}
UrlPool == {<<>>, UrlBlank, UrlShortDefault, UrlRepeated, UrlEscaped, UrlNoQuery,
            UrlFragment, UrlAllEleven}

\* the inputs of the runs of the whole of nmdb_data
CallDates == {D29, DateShort, D29 \o NL}
CallTimes == {Time0005, TimeShort, Time0005 \o NL}
CallUrls == {<<>>, UrlBlank}

\* the response bodies of the runs of the whole of nmdb_data
ResponseTexts ==
  {<<>>, TextOf(<<LineComment>>), TextOf(<<LineComment, LineBlank, LineComment>>),
   TextOf(<<LineABad>>), TextOf(<<LineD, LineJunk>>), TextOf(<<LineA>>),
   TextOf(<<LineA, LineComment, LineAEarly>>)}

\* n as two or more decimal digits
Pad2(n) == <<CHOOSE c \in Digits : DigitVal(c) = (n \div 10) % 10,
             CHOOSE c \in Digits : DigitVal(c) = n % 10>>

Pad4(n) == Pad2(n \div 100) \o Pad2(n % 100)

\* strftime('%Y-%m-%d %H:%M:%S') of a timestamp
FormatTimestamp(t) ==
  Pad4(t[1]) \o <<"-">> \o Pad2(t[2]) \o <<"-">> \o Pad2(t[3]) \o <<" ">>
    \o Pad2(t[4]) \o <<":">> \o Pad2(t[5]) \o <<":">> \o Pad2(t[6])

\* what df.to_csv(index=False, date_format='%Y-%m-%d %H:%M:%S') writes: the
\* header and one record per row, the datetime formatted
to_csv(f) ==
  [header |-> <<"datetime", "count">>,
   records |-> [i \in 1..Len(f) |-> <<FormatTimestamp(f[i].datetime[1]), f[i].count[1]>>]]

\* base = base_url or DEFAULT_URL
Base == IF base_url = <<>> THEN DEFAULT_URL ELSE base_url

\* url_ascii = _build_ascii_url(...): a ValueError ends the call
BuildUrl ==
  /\ pc = "start"
  /\ LET r == build_ascii_url(Base, start_date, start_time, end_date, end_time)
     IN IF r.err # ""
        THEN pc' = "failed" /\ err' = r.err /\ UNCHANGED url_ascii
        ELSE pc' = "built" /\ url_ascii' = r.url /\ UNCHANGED err
  /\ UNCHANGED <<start_date, start_time, end_date, end_time, base_url, out_csv,
                 text, rows, frame, df, http, fs, writes>>

\* _download_text: the GET is answered and the status is a success
DownloadOk ==
  /\ pc = "built"
  /\ http' = Append(http, url_ascii)
  /\ \E t \in ResponseTexts : text' = t
  /\ pc' = "fetched"
  /\ UNCHANGED <<start_date, start_time, end_date, end_time, base_url, out_csv,
                 url_ascii, rows, frame, df, err, fs, writes>>

\* _download_text: requests.get raises (no connection, timeout)
DownloadTransportError ==
  /\ pc = "built"
  /\ http' = Append(http, url_ascii)
  /\ pc' = "failed" /\ err' = "RequestException"
  /\ UNCHANGED <<start_date, start_time, end_date, end_time, base_url, out_csv,
                 url_ascii, text, rows, frame, df, fs, writes>>

\* _download_text: raise_for_status raises
DownloadHttpError ==
  /\ pc = "built"
  /\ http' = Append(http, url_ascii)
  /\ pc' = "failed" /\ err' = "HTTPError"
  /\ UNCHANGED <<start_date, start_time, end_date, end_time, base_url, out_csv,
                 url_ascii, text, rows, frame, df, fs, writes>>

\* DumpDebug with the file opened in append mode
DumpDebugAppend ==
  /\ pc = "parsed" /\ Len(df) = 0
  /\ fs' = [fs EXCEPT ![DebugPath] =
              [kind |-> "text",
               body |-> (IF fs[DebugPath].kind = "text" THEN fs[DebugPath].body ELSE <<>>) \o text]]
  /\ writes' = Append(writes, [path |-> DebugPath, kind |-> "debug", over |-> fs[DebugPath].kind])
  /\ pc' = "dumped"
  /\ UNCHANGED <<start_date, start_time, end_date, end_time, base_url, out_csv,
                 url_ascii, text, rows, frame, df, err, http>>

\* DumpDebug with to_csv called before the test of df.empty
DumpDebugAfterCsv ==
  /\ pc = "parsed" /\ Len(df) = 0
  /\ fs' = [[fs EXCEPT ![out_csv] = [kind |-> "csv", body |-> to_csv(df)]]
              EXCEPT ![DebugPath] = [kind |-> "text", body |-> text]]
  /\ writes' = writes \o <<[path |-> out_csv, kind |-> "csv", over |-> fs[out_csv].kind],
                           [path |-> DebugPath, kind |-> "debug", over |-> fs[DebugPath].kind]>>
  /\ pc' = "dumped"
  /\ UNCHANGED <<start_date, start_time, end_date, end_time, base_url, out_csv,
                 url_ascii, text, rows, frame, df, err, http>>

\* if df.empty: open('nmdb_debug.txt', 'w') and write text
DumpDebug ==
  /\ pc = "parsed" /\ Len(df) = 0
  /\ fs' = [fs EXCEPT ![DebugPath] = [kind |-> "text", body |-> text]]
  /\ writes' = Append(writes, [path |-> DebugPath, kind |-> "debug", over |-> fs[DebugPath].kind])
  /\ pc' = "dumped"
  /\ UNCHANGED <<start_date, start_time, end_date, end_time, base_url, out_csv,
                 url_ascii, text, rows, frame, df, err, http>>

\* raise RuntimeError(...)
RaiseEmpty ==
  /\ pc = "dumped"
  /\ pc' = "failed" /\ err' = "RuntimeError"
  /\ UNCHANGED <<start_date, start_time, end_date, end_time, base_url, out_csv,
                 url_ascii, text, rows, frame, df, http, fs, writes>>

\* df.to_csv(out_csv, ...) and return
WriteCsv ==
  /\ pc = "parsed" /\ Len(df) > 0
  /\ fs' = [fs EXCEPT ![out_csv] = [kind |-> "csv", body |-> to_csv(df)]]
  /\ writes' = Append(writes, [path |-> out_csv, kind |-> "csv", over |-> fs[out_csv].kind])
  /\ pc' = "done"
  /\ UNCHANGED <<start_date, start_time, end_date, end_time, base_url, out_csv,
                 url_ascii, text, rows, frame, df, err, http>>

\* a call of nmdb_data: its arguments, and the files there before it
Init ==
  /\ pc = "start"
  /\ start_date \in CallDates /\ end_date \in CallDates
  /\ start_time \in CallTimes /\ end_time \in CallTimes
  /\ base_url \in CallUrls
  /\ out_csv \in Paths
  /\ url_ascii = <<>> /\ text = <<>> /\ rows = <<>> /\ frame = <<>> /\ df = <<>>
  /\ err = "" /\ http = <<>> /\ writes = <<>>
  /\ \E old \in {Absent, [kind |-> "text", body |-> OldDump]} :
       fs = [p \in Paths |-> IF p = DebugPath THEN old ELSE Absent]

Next ==
  \/ BuildUrl
  \/ DownloadOk
  \/ DownloadTransportError
  \/ DownloadHttpError
  \/ ParseAscii
  \/ DumpDebug
  \/ RaiseEmpty
  \/ WriteCsv

Spec == Init /\ [][Next]_vars

\* the URL builder alone, over more dates, times and base URLs
InitUrl ==
  /\ pc = "start"
  /\ start_date \in DatePool /\ end_date \in DatePool
  /\ start_time \in TimePool /\ end_time \in TimePool
  /\ base_url \in UrlPool
  /\ out_csv = DefaultCsv
  /\ url_ascii = <<>> /\ text = <<>> /\ rows = <<>> /\ frame = <<>> /\ df = <<>>
  /\ err = "" /\ http = <<>> /\ writes = <<>>
  /\ fs = [p \in Paths |-> Absent]

NextUrl == BuildUrl

SpecUrl == InitUrl /\ [][NextUrl]_vars

(***************************************************************************)
(* Properties of _build_ascii_url                                          *)
(***************************************************************************)
\* the name=value pieces of a query string
Segments(q) == IF q = <<>> THEN <<>> ELSE SelectSeq(SplitOn(q, "&"), LAMBDA x : x # <<>>)

\* the name of a piece, as the server reads it
SegmentName(seg) == unquote(Replace(SplitFirstEq(seg)[1], "+", " "))

\* how many times a piece occurs in a query string
Occurrences(segs, seg) == Cardinality({i \in 1..Len(segs) : segs[i] = seg})

\* the eleven parameters _build_ascii_url sets
SetNames == {K_start_day, K_start_month, K_start_year, K_start_hour, K_start_min,
             K_end_day, K_end_month, K_end_year, K_end_hour, K_end_min, K_output}

\* s is YYYY-MM-DD
IsDate(s) == Len(s) = 10 /\ DateAt(s, 1)

\* s is HH:MM
IsTime(s) == Len(s) = 5 /\ HourMinAt(s, 1)

ValidWindow == IsDate(start_date) /\ IsTime(start_time) /\ IsDate(end_date) /\ IsTime(end_time)

\* a number below 100 in decimal, without leading zeros
Decimal(n) ==
  IF n < 10 THEN <<CHOOSE c \in Digits : DigitVal(c) = n>>
  ELSE <<CHOOSE c \in Digits : DigitVal(c) = n \div 10, CHOOSE c \in Digits : DigitVal(c) = n % 10>>

\* the query string carries the parameter exactly once, with this value
CarriesOnce(q, name, value) ==
  LET segs == Segments(q)
      at == {i \in 1..Len(segs) : SegmentName(segs[i]) = name}
  IN Cardinality(at) = 1 /\ \A i \in at : segs[i] = name \o <<"=">> \o value

\* C3: every query parameter of the base URL whose name is none of the
\* eleven set ones is in the returned URL unchanged, byte for byte, as many
\* times as in the base URL.
C3_OtherParametersUnchanged ==
  pc = "built" =>
    LET old == Segments(urlparse(Base).query)
        new == Segments(urlparse(url_ascii).query)
    IN \A i \in 1..Len(old) :
         SegmentName(old[i]) \notin SetNames =>
           Occurrences(new, old[i]) = Occurrences(old, old[i])

\* C4: for a valid window and any base URL, the returned URL carries each of
\* start/end day, month, year, hour, min exactly once, with the value of the
\* input field (day, month, hour and minute without leading zeros, never
\* empty), and output exactly once with the value ascii.
C4_ElevenParametersSetOnce ==
  (pc = "built" /\ ValidWindow) =>
    LET q == urlparse(url_ascii).query
    IN /\ CarriesOnce(q, K_start_day, Decimal(NatVal(start_date, 9, 10)))
       /\ CarriesOnce(q, K_start_month, Decimal(NatVal(start_date, 6, 7)))
       /\ CarriesOnce(q, K_start_year, SubSeq(start_date, 1, 4))
       /\ CarriesOnce(q, K_start_hour, Decimal(NatVal(start_time, 1, 2)))
       /\ CarriesOnce(q, K_start_min, Decimal(NatVal(start_time, 4, 5)))
       /\ CarriesOnce(q, K_end_day, Decimal(NatVal(end_date, 9, 10)))
       /\ CarriesOnce(q, K_end_month, Decimal(NatVal(end_date, 6, 7)))
       /\ CarriesOnce(q, K_end_year, SubSeq(end_date, 1, 4))
       /\ CarriesOnce(q, K_end_hour, Decimal(NatVal(end_time, 1, 2)))
       /\ CarriesOnce(q, K_end_min, Decimal(NatVal(end_time, 4, 5)))
       /\ CarriesOnce(q, K_output, V_ascii)

\* C4 witness: a URL built for a window with a day 00 and a minute 05, from
\* a base URL that holds end_min and output twice and no start_day
C4_Witness ==
  /\ pc = "built" /\ ValidWindow
  /\ NatVal(end_date, 9, 10) = 0 /\ SubSeq(start_time, 4, 5) = <<"0", "5">>
  /\ LET old == Segments(urlparse(Base).query)
     IN /\ Cardinality({i \in 1..Len(old) : SegmentName(old[i]) = K_end_min}) = 2
        /\ Cardinality({i \in 1..Len(old) : SegmentName(old[i]) = K_output}) = 2
        /\ \A i \in 1..Len(old) : SegmentName(old[i]) # K_start_day

(***************************************************************************)
(* Properties of nmdb_data                                                 *)
(***************************************************************************)
CsvWritten == \E i \in 1..Len(writes) : writes[i].kind = "csv"

\* C5: if a date is not YYYY-MM-DD or a time is not HH:MM, the call ends
\* with the validation error, no HTTP request issued and no file written.
C5_InvalidWindowFailsBeforeNetwork ==
  (~ValidWindow /\ pc # "start") =>
    (pc = "failed" /\ err = "ValueError" /\ http = <<>> /\ writes = <<>>)

\* C6: a call that ends in a failure has not written the CSV, and the CSV is
\* written only after the URL was built, the text fetched and a Result Table
\* that is not empty parsed from it.
C6_NoCsvOnFailure ==
  /\ pc = "failed" => ~CsvWritten
  /\ (pc = "failed" /\ out_csv # DebugPath) => fs[out_csv] = Absent
  /\ CsvWritten =>
       /\ pc = "done" /\ err = ""
       /\ http = <<url_ascii>> /\ url_ascii # <<>>
       /\ rows = ParseRows(text) /\ Len(df) > 0 /\ df \in SortValues(DropNa(frame))

\* C6 witness: a call that went as far as the parse, had Raw Rows and
\* ended in the empty-result error
C6_Witness ==
  /\ pc = "failed" /\ err = "RuntimeError"
  /\ writes = <<[path |-> DebugPath, kind |-> "debug", over |-> "absent"]>>
  /\ http = <<url_ascii>> /\ Len(rows) > 0

\* C7: a call whose fetched text gives an empty Result Table ends with the
\* empty-result error, and when the error is raised the debug file holds
\* exactly the text fetched.
C7_EmptyResultDumpsText ==
  /\ (pc = "failed" /\ err = "RuntimeError") =>
       /\ Len(df) = 0
       /\ fs[DebugPath].kind = "text" /\ fs[DebugPath].body = text
  /\ (pc \in {"done", "failed"} /\ err \notin {"ValueError", "RequestException", "HTTPError"}
        /\ Len(df) = 0) =>
       (pc = "failed" /\ err = "RuntimeError")

\* C7 witness: the error raised for a text of comments only, the dump
\* having replaced an earlier one
C7_Witness ==
  /\ pc = "failed" /\ err = "RuntimeError"
  /\ text # <<>> /\ \A i \in DOMAIN TokensOfLines : ~IsDataLine(TokensOfLines[i])
  /\ \E i \in 1..Len(writes) : writes[i].kind = "debug" /\ writes[i].over = "text"
  /\ fs[DebugPath].body = text

====
